---- MODULE Spec2Model ----
(***************************************************************************)
(* Building-energy dashboard: the query service of api.py, the local       *)
(* helpers of dashboard_cloud.py and the presentation script of            *)
(* dashboard.py, over the Result Table loaded from predictions.parquet.    *)
(*                                                                         *)
(* Numbers.  Every float column (baseload, weekend_ratio, avg_consumption, *)
(* SHAP contributions) is an integer number of tenths; a mean is the exact *)
(* rational sum/count, kept as a reduced fraction [num, den].  Floating    *)
(* point rounding is outside the model.                                    *)
(***************************************************************************)
EXTENDS Integers, Sequences, FiniteSets, TLC

VARIABLES
    df,     \* the Result Table: [columns, rows], loaded once (api.py:20-33)
    resp,   \* the last answer of the query layer (api.py handlers, cloud helpers)
    view,   \* what the last run of the dashboard script displayed
    files,  \* predictions.parquet and predictions.csv as found at startup
    conn    \* which HTTP calls of the last run of the script got through

vars == <<df, resp, view, files, conn>>

(***************************************************************************)
(* Bounds of the model.                                                    *)
(***************************************************************************)
MaxRows == 3        \* rows of a short table
MaxRank == 3        \* priority ranks of a short table are 1..MaxRank
Extra == 1          \* a long table has TopN + 1 .. TopN + Extra rows

\* df.nsmallest(10, 'priority_rank')
TopN == 10

(***************************************************************************)
(* Python values, as json.loads and the handlers produce them.             *)
(***************************************************************************)
PyNone == [kind |-> "null"]
PyNum(n) == [kind |-> "num", n |-> n]
PyStr(s) == [kind |-> "str", s |-> s]
PyList(items) == [kind |-> "list", items |-> items]
\* a dict keeps its items in insertion order: a sequence of [key, val]
PyDict(items) == [kind |-> "dict", items |-> items]
EmptyDict == PyDict(<<>>)
\* the key 'shap_values' was never set on the record
Absent == [kind |-> "absent"]

\* Python truthiness (bool(v)) of a parsed value
Truthy(v) ==
    CASE v.kind = "num" -> v.n # 0
      [] v.kind = "str" -> v.s # ""
      [] v.kind = "list" -> v.items # <<>>
      [] v.kind = "dict" -> v.items # <<>>
      [] OTHER -> FALSE

\* d[k] = v on a dict: an existing key keeps its place and takes the new value
DictPut(items, k, v) ==
    IF \E i \in 1..Len(items) : items[i].key = k
    THEN [i \in 1..Len(items) |->
            IF items[i].key = k THEN [key |-> k, val |-> v] ELSE items[i]]
    ELSE Append(items, [key |-> k, val |-> v])

(***************************************************************************)
(* JSON text is a sequence of lexical tokens; json.loads is a recursive    *)
(* descent parser over it.                                                 *)
(***************************************************************************)
Tok(t, s, n) == [t |-> t, s |-> s, n |-> n]
LB == Tok("{", "", 0)
RB == Tok("}", "", 0)
LS == Tok("[", "", 0)
RS == Tok("]", "", 0)
COLON == Tok(":", "", 0)
COMMA == Tok(",", "", 0)
NULL == Tok("null", "", 0)
JUNK == Tok("junk", "", 0)        \* characters that start no JSON value
S(s) == Tok("str", s, 0)
N(n) == Tok("num", "", n)

ParseFail == [ok |-> FALSE, val |-> PyNone, next |-> 0]
ParseOk(v, next) == [ok |-> TRUE, val |-> v, next |-> next]

RECURSIVE ParseValue(_, _)
RECURSIVE ParseElements(_, _, _)
RECURSIVE ParseMembers(_, _, _)

\* one JSON value starting at token i
ParseValue(toks, i) ==
    IF i > Len(toks) THEN ParseFail
    ELSE LET t == toks[i] IN
         CASE t.t = "num" -> ParseOk(PyNum(t.n), i + 1)
           [] t.t = "str" -> ParseOk(PyStr(t.s), i + 1)
           [] t.t = "null" -> ParseOk(PyNone, i + 1)
           [] t.t = "[" ->
                IF i + 1 <= Len(toks) /\ toks[i + 1].t = "]"
                THEN ParseOk(PyList(<<>>), i + 2)
                ELSE ParseElements(toks, i + 1, <<>>)
           [] t.t = "{" ->
                IF i + 1 <= Len(toks) /\ toks[i + 1].t = "}"
                THEN ParseOk(EmptyDict, i + 2)
                ELSE ParseMembers(toks, i + 1, <<>>)
           [] OTHER -> ParseFail

\* value ("," value)* "]"
ParseElements(toks, i, acc) ==
    LET r == ParseValue(toks, i) IN
    IF ~r.ok \/ r.next > Len(toks) THEN ParseFail
    ELSE IF toks[r.next].t = "]" THEN ParseOk(PyList(Append(acc, r.val)), r.next + 1)
    ELSE IF toks[r.next].t = "," THEN ParseElements(toks, r.next + 1, Append(acc, r.val))
    ELSE ParseFail

\* string ":" value ("," string ":" value)* "}"
ParseMembers(toks, i, acc) ==
    IF i + 1 > Len(toks) \/ toks[i].t # "str" \/ toks[i + 1].t # ":" THEN ParseFail
    ELSE LET r == ParseValue(toks, i + 2) IN
         IF ~r.ok \/ r.next > Len(toks) THEN ParseFail
         ELSE LET items == DictPut(acc, toks[i].s, r.val) IN
              IF toks[r.next].t = "}" THEN ParseOk(PyDict(items), r.next + 1)
              ELSE IF toks[r.next].t = "," THEN ParseMembers(toks, r.next + 1, items)
              ELSE ParseFail

(***************************************************************************)
(* A shap_json cell as pandas hands it to the handler: None (a NULL of an  *)
(* object column), NaN (an empty CSV field) or a str.                      *)
(***************************************************************************)
CellNone == [kind |-> "none", toks |-> <<>>]
CellNaN == [kind |-> "nan", toks |-> <<>>]
CellText(toks) == [kind |-> "text", toks |-> toks]

\* bool(record['shap_json']): NaN is a non-zero float
CellTruthy(c) ==
    CASE c.kind = "none" -> FALSE
      [] c.kind = "nan" -> TRUE
      [] OTHER -> c.toks # <<>>

\* pd.notna(record['shap_json'])
NotNa(c) == c.kind = "text"

\* json.loads(cell): [ok, val]; not ok is a raised exception (TypeError for
\* a float, JSONDecodeError for text that is no single JSON value)
json_loads(c) ==
    IF c.kind # "text" THEN [ok |-> FALSE, val |-> PyNone]
    ELSE LET r == ParseValue(c.toks, 1) IN
         IF r.ok /\ r.next = Len(c.toks) + 1
         THEN [ok |-> TRUE, val |-> r.val]
         ELSE [ok |-> FALSE, val |-> PyNone]

(***************************************************************************)
(* pandas operations used by the handlers.                                 *)
(***************************************************************************)
\* df[df[col] == v]: the matching rows, in table order
Filter(rows, col, v) == SelectSeq(rows, LAMBDA r : r[col] = v)

\* df[col]
Column(rows, col) == [i \in 1..Len(rows) |-> rows[i][col]]

RECURSIVE SumUpTo(_, _)
SumUpTo(col, n) == IF n = 0 THEN 0 ELSE SumUpTo(col, n - 1) + col[n]
\* Series.sum() of a numeric column
Sum(col) == SumUpTo(col, Len(col))

\* mutation: Series.count() in place of Series.sum()
SumBool_count(col) == Len(col)

\* Series.sum() of a boolean column: True counts 1
SumBool(col) == Sum([i \in 1..Len(col) |-> IF col[i] THEN 1 ELSE 0])

RECURSIVE Gcd(_, _)
Gcd(a, b) == IF b = 0 THEN a ELSE Gcd(b, a % b)
Abs(x) == IF x < 0 THEN -x ELSE x

\* the number a / b (b > 0) as a reduced fraction
Div(a, b) ==
    LET g == Gcd(Abs(a), b) IN [num |-> a \div g, den |-> b \div g]

\* Series.mean() of a non-empty numeric column
Mean(col) == Div(Sum(col), Len(col))

\* a stable ascending sort of the positions 1..Len(keys) by integer key:
\* insertion after the last position whose key is not greater
InsertIdx(sorted, i, keys) ==
    LET p == Cardinality({k \in 1..Len(sorted) : keys[sorted[k]] <= keys[i]})
    IN SubSeq(sorted, 1, p) \o <<i>> \o SubSeq(sorted, p + 1, Len(sorted))

RECURSIVE ArgSortUpTo(_, _)
ArgSortUpTo(keys, n) ==
    IF n = 0 THEN <<>> ELSE InsertIdx(ArgSortUpTo(keys, n - 1), n, keys)
ArgSort(keys) == ArgSortUpTo(keys, Len(keys))

\* the rows picked by a sequence of positions
Take(rows, idx) == [k \in 1..Len(idx) |-> rows[idx[k]]]

Min(a, b) == IF a <= b THEN a ELSE b

\* mutation: df.head(n) in place of df.nsmallest(n, col)
nsmallest_head(rows, n, col) == SubSeq(rows, 1, Min(n, Len(rows)))

\* df.nsmallest(n, col): the n rows of smallest col, ascending, ties in
\* table order (keep='first')
nsmallest(rows, n, col) ==
    LET order == ArgSort(Column(rows, col))
    IN Take(rows, SubSeq(order, 1, Min(n, Len(rows))))

RECURSIVE UniqUpTo(_, _)
UniqUpTo(col, n) ==
    IF n = 0 THEN <<>>
    ELSE LET u == UniqUpTo(col, n - 1) IN
         IF \E k \in 1..Len(u) : u[k] = col[n] THEN u ELSE Append(u, col[n])
\* the distinct values of a column in order of first appearance
Uniq(col) == UniqUpTo(col, Len(col))

\* mutation: the values are de-duplicated before they are counted
value_counts_distinct(col) ==
    [k \in 1..Len(Uniq(col)) |-> [key |-> Uniq(col)[k], val |-> 1]]

\* Series.value_counts().to_dict(): value -> count, most frequent first,
\* equal counts in order of first appearance; a dict is a sequence of
\* [key, val]
value_counts(col) ==
    LET u == Uniq(col)
        cnt == [k \in 1..Len(u) |-> Cardinality({i \in 1..Len(col) : col[i] = u[k]})]
        order == ArgSort([k \in 1..Len(u) |-> 0 - cnt[k]])
    IN [k \in 1..Len(u) |-> [key |-> u[order[k]], val |-> cnt[order[k]]]]

\* row.to_dict(): the row's value under every column of the table
to_dict(columns, row) == [c \in columns |-> row[c]]

\* df[cols].to_dict('records')
to_records(rows, cols) == [i \in 1..Len(rows) |-> to_dict(cols, rows[i])]

(***************************************************************************)
(* The query service (api.py).  A handler's answer is [status, body];      *)
(* HTTPException(status_code=404) is status 404 with the detail as body.   *)
(***************************************************************************)
Ok(body) == [status |-> 200, body |-> body]
HTTPException(code, detail) == [status |-> code, body |-> [detail |-> detail]]

\* GET /
root(d) == Ok([status |-> "ok", buildings |-> Len(d.rows)])

\* GET /buildings
list_buildings(d) ==
    Ok(to_records(d.rows, {"building_id", "building_type", "priority_rank"}))

\* mutation: "except: pass" leaves the key unset on a parse failure
api_shap_values_pass(d, record) ==
    IF "shap_json" \in d.columns /\ CellTruthy(record.shap_json)
    THEN LET p == json_loads(record.shap_json) IN
         IF p.ok THEN p.val ELSE Absent
    ELSE Absent

\* the SHAP part of api.get_building: the value of record['shap_values'],
\* Absent when the key is not set
api_shap_values(d, record) ==
    IF "shap_json" \in d.columns /\ CellTruthy(record.shap_json)
    THEN LET p == json_loads(record.shap_json) IN
         IF p.ok THEN p.val ELSE EmptyDict
    ELSE Absent

\* mutation: row.iloc[-1] in place of row.iloc[0]
get_building_last(d, building_id) ==
    LET row == Filter(d.rows, "building_id", building_id) IN
    IF row = <<>> THEN HTTPException(404, "Building not found")
    ELSE LET record == to_dict(d.columns, row[Len(row)]) IN
         Ok([record |-> record, shap_values |-> api_shap_values(d, record)])

\* GET /building/{building_id}
get_building(d, building_id) ==
    LET row == Filter(d.rows, "building_id", building_id) IN
    IF row = <<>> THEN HTTPException(404, "Building not found")
    ELSE LET record == to_dict(d.columns, row[1]) IN
         Ok([record |-> record, shap_values |-> api_shap_values(d, record)])

\* the summary both api.get_summary and dashboard_cloud.get_summary build
summary_of(d) ==
    [total_buildings |-> Len(d.rows),
     anomalies |-> SumBool(Column(d.rows, "is_anomaly")),
     underperformers |->
        IF "underperformer" \in d.columns
        THEN SumBool(Column(d.rows, "underperformer")) ELSE 0,
     clusters |-> value_counts(Column(d.rows, "cluster")),
     top_priority |->
        to_records(nsmallest(d.rows, TopN, "priority_rank"),
                   {"building_id", "building_type", "recommendation", "priority_rank"})]

\* GET /summary
get_summary(d) == Ok(summary_of(d))

\* mutation: the means are taken over df in place of cluster_df
cluster_stats_of_all(d, cluster_id, cluster_df) ==
    [cluster_id |-> cluster_id,
     count |-> Len(cluster_df),
     avg_baseload |-> Mean(Column(d.rows, "baseload")),
     avg_weekend_ratio |->
        IF "weekend_ratio" \in d.columns
        THEN Mean(Column(d.rows, "weekend_ratio")) ELSE PyNone]

\* the statistics of a non-empty cluster_df
cluster_stats_of(d, cluster_id, cluster_df) ==
    [cluster_id |-> cluster_id,
     count |-> Len(cluster_df),
     avg_baseload |-> Mean(Column(cluster_df, "baseload")),
     avg_weekend_ratio |->
        IF "weekend_ratio" \in d.columns
        THEN Mean(Column(cluster_df, "weekend_ratio")) ELSE PyNone]

\* mutation: df['building_id'] in place of cluster_df['building_id']
get_cluster_all_ids(d, cluster_id) ==
    LET cluster_df == Filter(d.rows, "cluster", cluster_id) IN
    IF cluster_df = <<>> THEN HTTPException(404, "Cluster not found")
    ELSE LET st == cluster_stats_of(d, cluster_id, cluster_df) IN
         Ok([cluster_id |-> st.cluster_id, count |-> st.count,
             avg_baseload |-> st.avg_baseload,
             avg_weekend_ratio |-> st.avg_weekend_ratio,
             buildings |-> Column(d.rows, "building_id")])

\* GET /cluster/{cluster_id}
get_cluster(d, cluster_id) ==
    LET cluster_df == Filter(d.rows, "cluster", cluster_id) IN
    IF cluster_df = <<>> THEN HTTPException(404, "Cluster not found")
    ELSE LET st == cluster_stats_of(d, cluster_id, cluster_df) IN
         Ok([cluster_id |-> st.cluster_id, count |-> st.count,
             avg_baseload |-> st.avg_baseload,
             avg_weekend_ratio |-> st.avg_weekend_ratio,
             buildings |-> Column(cluster_df, "building_id")])

(***************************************************************************)
(* The local helpers of dashboard_cloud.py: the same table, answers are    *)
(* plain values and None stands for "not found".                           *)
(***************************************************************************)
cloud_get_summary(d) == summary_of(d)

\* mutation: "except: pass" with the key preset to None
cloud_shap_values_none(d, record) ==
    IF "shap_json" \in d.columns /\ CellTruthy(record.shap_json)
       /\ NotNa(record.shap_json)
    THEN LET p == json_loads(record.shap_json) IN
         IF p.ok THEN p.val ELSE PyNone
    ELSE EmptyDict

\* the SHAP part of dashboard_cloud.get_building: always sets the key
cloud_shap_values(d, record) ==
    IF "shap_json" \in d.columns /\ CellTruthy(record.shap_json)
       /\ NotNa(record.shap_json)
    THEN LET p == json_loads(record.shap_json) IN
         IF p.ok THEN p.val ELSE EmptyDict
    ELSE EmptyDict

\* mutation: an empty dict in place of None for an unknown identifier
cloud_get_building_empty(d, building_id) ==
    LET row == Filter(d.rows, "building_id", building_id) IN
    IF row = <<>> THEN EmptyDict
    ELSE LET record == to_dict(d.columns, row[1]) IN
         [kind |-> "record", record |-> record,
          shap_values |-> cloud_shap_values(d, record)]

cloud_get_building(d, building_id) ==
    LET row == Filter(d.rows, "building_id", building_id) IN
    IF row = <<>> THEN PyNone
    ELSE LET record == to_dict(d.columns, row[1]) IN
         [kind |-> "record", record |-> record,
          shap_values |-> cloud_shap_values(d, record)]

cloud_get_cluster(d, cluster_id) ==
    LET cluster_df == Filter(d.rows, "cluster", cluster_id) IN
    IF cluster_df = <<>> THEN PyNone
    ELSE LET st == cluster_stats_of(d, cluster_id, cluster_df) IN
         [kind |-> "stats", cluster_id |-> st.cluster_id, count |-> st.count,
          avg_baseload |-> st.avg_baseload,
          avg_weekend_ratio |-> st.avg_weekend_ratio]

(***************************************************************************)
(* The tables the service is started on.  A row carries every column of    *)
(* the Building Record; a family of tables varies the columns one group of *)
(* operations reads and keeps the others at the values of Building(i).     *)
(***************************************************************************)
BuildingId(i) == "B" \o ToString(i)

Building(i) ==
    [building_id |-> BuildingId(i), building_type |-> "office", cluster |-> 0,
     is_anomaly |-> FALSE, underperformer |-> FALSE, priority_rank |-> i,
     baseload |-> 10, weekend_ratio |-> 5, avg_consumption |-> 20,
     recommendation |-> "audit", shap_json |-> CellNone]

AllColumns == DOMAIN Building(1)

Table(columns, rows) == [columns |-> columns, rows |-> rows]

\* identifiers repeat: rows differ by priority_rank (their position)
IdTables ==
    UNION {{[i \in 1..n |-> [Building(i) EXCEPT !.building_id = BuildingId(f[i])]] :
                f \in [1..n -> 1..MaxRows]} : n \in 0..MaxRows}

\* shap_json payloads: {"a": 0.5, "b": -0.3} and its variants
ShapTexts ==
    {<<LB, S("a"), COLON, N(5), COMMA, S("b"), COLON, N(-3), RB>>,
     <<LB, S("b"), COLON, N(-3), COMMA, S("a"), COLON, N(5), RB>>,
     <<LB, S("a"), COLON, N(3), COMMA, S("b"), COLON, N(-3), COMMA,
       S("c"), COLON, N(-7), RB>>,
     <<LB, S("a"), COLON, N(0), COMMA, S("b"), COLON, N(5), RB>>,
     <<LB, S("a"), COLON, N(1), COMMA, S("a"), COLON, N(-2), RB>>,
     <<LB, S("a"), COLON, S("x"), RB>>,
     <<LB, S("a"), COLON, LB, S("b"), COLON, N(1), RB, RB>>,
     <<LB, RB>>,
     <<LB, S("a"), COLON, N(5)>>,
     <<LB, S("a"), N(5), RB>>,
     <<JUNK>>,
     <<LS, N(5), COMMA, N(-3), RS>>,
     <<LS, RS>>,
     <<N(7)>>,
     <<N(0)>>,
     <<S("x")>>,
     <<NULL>>,
     <<>>}

ShapCells == {CellNone, CellNaN} \cup {CellText(t) : t \in ShapTexts}

\* one row of the table carries a payload
ShapTables ==
    UNION {{[i \in 1..n |-> IF i = j THEN [Building(i) EXCEPT !.shap_json = c]
                                     ELSE Building(i)] :
                j \in 1..n, c \in ShapCells} : n \in 1..MaxRows}

\* priority ranks, ties included
RankTables ==
    UNION {{[i \in 1..n |-> [Building(i) EXCEPT !.priority_rank = f[i]]] :
                f \in [1..n -> 1..MaxRank]} : n \in 0..MaxRows}

\* more rows than the priority list holds: the ranks 1..n rotated by k,
\* ascending, descending, or in tied pairs
LongRank(shape, n, k, i) ==
    LET r == ((i + k) % n) + 1 IN
    CASE shape = "ascending" -> r
      [] shape = "descending" -> n + 1 - r
      [] OTHER -> (r + 1) \div 2

LongTables ==
    UNION {{[i \in 1..n |-> [Building(i) EXCEPT !.priority_rank = LongRank(shape, n, k, i),
                                               !.is_anomaly = (r = i % 3)]] :
                k \in 0..(n - 1), shape \in {"ascending", "descending", "tied"},
                r \in 0..1} :
           n \in (TopN + 1)..(TopN + Extra)}

AnomalyTables ==
    UNION {{[i \in 1..n |-> [Building(i) EXCEPT !.is_anomaly = f[i]]] :
                f \in [1..n -> BOOLEAN]} : n \in 0..MaxRows}

BaseloadValues == {10, 20, 30}

\* cluster labels in order of first appearance (the handlers only compare
\* cluster values for equality), shifted by 0 or 1 so that 0 may be unused
Groupings(n) ==
    {g \in [1..n -> 0..(n - 1)] :
        \A i \in 1..n : \A c \in 0..(g[i] - 1) : \E j \in 1..(i - 1) : g[j] = c}

ClusterTables ==
    UNION {{[i \in 1..n |-> [Building(i) EXCEPT !.cluster = g[i] + shift, !.baseload = b[i]]] :
                g \in Groupings(n), b \in [1..n -> BaseloadValues], shift \in 0..1} :
           n \in 0..MaxRows}

\* one of two identifiers on every row, the rows spread over clusters: an
\* identifier may recur within a cluster and across clusters
SharedIdTables ==
    UNION {{[i \in 1..n |-> [Building(i) EXCEPT !.building_id = BuildingId(f[i]),
                                               !.cluster = g[i]]] :
                f \in [1..n -> 1..2], g \in Groupings(n)} : n \in 1..MaxRows}

\* the columns the handlers test for before reading them
OptionalColumns == {"underperformer", "weekend_ratio"}

\* tables written without one or both of these columns: the rows carry
\* the remaining columns only
OptionalTables ==
    UNION {{Table(AllColumns \ missing,
                  [i \in 1..n |-> to_dict(AllColumns \ missing,
                                          [Building(i) EXCEPT !.cluster = g[i]])]) :
                g \in Groupings(n), missing \in (SUBSET OptionalColumns) \ {{}}} :
           n \in 0..MaxRows}

\* the tables read from predictions.parquet / predictions.csv; the optional
\* shap_json column may be missing
Tables ==
    {Table(AllColumns, rows) :
        rows \in IdTables \cup ShapTables \cup RankTables \cup LongTables
                 \cup AnomalyTables \cup ClusterTables \cup SharedIdTables}
    \cup {Table(AllColumns \ {"shap_json"}, rows) : rows \in IdTables}
    \cup OptionalTables

\* the arguments the callers send
AskedBuildings == {BuildingId(i) : i \in 1..(MaxRows + 1)}
AskedClusters == 0..(MaxRows + 1)

(***************************************************************************)
(* The state machine.                                                      *)
(***************************************************************************)
NoResp == [op |-> "none"]
NoView == [kind |-> "none"]

\* the outcome of the HTTP calls of one run of dashboard.py, per helper:
\* TRUE when requests.get(...).json() returned, FALSE when it raised
Network == [summary : BOOLEAN, cluster : BOOLEAN, building : BOOLEAN]
AllUp == [summary |-> TRUE, cluster |-> TRUE, building |-> TRUE]

\* a file that does not exist
Missing == [kind |-> "missing"]
\* df before the module has run, and after it raised
NotLoaded == [kind |-> "not_loaded"]
FileNotFoundError == [kind |-> "FileNotFoundError"]

\* the tables found next to api.py when both files may exist
FallbackTables == {Table(AllColumns, rows) : rows \in AnomalyTables}

\* the artifact directories: the parquet file alone, or any combination of
\* a parquet file and a CSV file, each missing or holding a table
Filesystems ==
    {[parquet |-> t, csv |-> Missing] : t \in Tables}
    \cup [parquet : FallbackTables \cup {Missing}, csv : FallbackTables \cup {Missing}]

\* mutation: the CSV file is tried first
load_csv_first(fs) ==
    IF fs.csv # Missing THEN fs.csv
    ELSE IF fs.parquet # Missing THEN fs.parquet
    ELSE FileNotFoundError

\* the module body of api.py: read_parquet(DATA_PATH) if it exists, else
\* read_csv(csv_path) if that exists, else raise
load(fs) ==
    IF fs.parquet # Missing THEN fs.parquet
    ELSE IF fs.csv # Missing THEN fs.csv
    ELSE FileNotFoundError

\* the service is up: the module ran to its end and the routes exist
Serving == df \notin {NotLoaded, FileNotFoundError}

\* the state once startup has succeeded
Init ==
    /\ files \in Filesystems
    /\ df = load(files)
    /\ Serving
    /\ resp = NoResp
    /\ view = NoView
    /\ conn = AllUp

\* mutation: the handler sorts the table in place before it returns
Answer_inplace(op, arg, res) ==
    /\ Serving
    /\ resp = NoResp
    /\ resp' = [op |-> op, arg |-> arg, res |-> res]
    /\ df' = [df EXCEPT !.rows = nsmallest(df.rows, Len(df.rows), "priority_rank")]
    /\ UNCHANGED <<view, files, conn>>

\* a handler runs to completion on one request; its answer is in flight
\* until the caller has taken it
Answer(op, arg, res) ==
    /\ Serving
    /\ resp = NoResp
    /\ resp' = [op |-> op, arg |-> arg, res |-> res]
    /\ UNCHANGED <<df, view, files, conn>>

Root == Answer("root", "", root(df))
ListBuildings == Answer("list_buildings", "", list_buildings(df))
GetBuilding(b) == Answer("get_building", b, get_building(df, b))
GetSummary == Answer("get_summary", "", get_summary(df))
GetCluster(c) == Answer("get_cluster", c, get_cluster(df, c))
CloudGetSummary == Answer("cloud_get_summary", "", cloud_get_summary(df))
CloudGetBuilding(b) == Answer("cloud_get_building", b, cloud_get_building(df, b))
CloudGetCluster(c) == Answer("cloud_get_cluster", c, cloud_get_cluster(df, c))

\* the caller takes the answer
Return ==
    /\ resp # NoResp
    /\ resp' = NoResp
    /\ UNCHANGED <<df, view, files, conn>>

Next ==
    \/ Root
    \/ ListBuildings
    \/ \E b \in AskedBuildings : GetBuilding(b)
    \/ GetSummary
    \/ \E c \in AskedClusters : GetCluster(c)
    \/ CloudGetSummary
    \/ \E b \in AskedBuildings : CloudGetBuilding(b)
    \/ \E c \in AskedClusters : CloudGetCluster(c)
    \/ Return

Spec == Init /\ [][Next]_vars

(***************************************************************************)
(* Startup of the query service (api.py:20-33): the process begins with    *)
(* no table, the module body loads it, and the handlers answer from then   *)
(* on.  When the module raises the process ends and nothing is served.     *)
(***************************************************************************)
StartInit ==
    /\ files \in Filesystems
    /\ df = NotLoaded
    /\ resp = NoResp
    /\ view = NoView
    /\ conn = AllUp

Startup ==
    /\ df = NotLoaded
    /\ df' = load(files)
    /\ UNCHANGED <<resp, view, files, conn>>

StartNext == Startup \/ Next

StartSpec == StartInit /\ [][StartNext]_vars

(***************************************************************************)
(* The presentation script (dashboard.py).  Streamlit runs the script from *)
(* top to bottom on every interaction; a run asks the query service over   *)
(* HTTP, one attempt per call, and a failed call takes the except branch.  *)
(* The st.cache of get_summary (ttl=60) is not modelled: a run fetches.    *)
(***************************************************************************)
\* a JSON object key: FastAPI writes the int keys of 'clusters' as strings
JsonKey(k) == ToString(k)
\* int(cluster_id) of such a key
int(key) == CHOOSE n \in AskedClusters : ToString(n) = key

\* dashboard.get_summary: requests.get(API_URL/summary).json(), None on failure
dash_get_summary(d, up) ==
    IF ~up THEN PyNone
    ELSE LET body == get_summary(d).body IN
         [body EXCEPT !.clusters =
            [k \in 1..Len(body.clusters) |->
                [key |-> JsonKey(body.clusters[k].key), val |-> body.clusters[k].val]]]

\* dashboard.get_cluster: the JSON body whatever the status, None on failure
dash_get_cluster(d, cluster_id, up) ==
    IF ~up THEN PyNone ELSE get_cluster(d, cluster_id).body

\* mutation: the request is repeated until it gets through
dash_get_building_retry(d, building_id, up) ==
    get_building(d, building_id).body

\* dashboard.get_building: the JSON body whatever the status, None on failure
dash_get_building(d, building_id, up) ==
    IF ~up THEN PyNone ELSE get_building(d, building_id).body

RECURSIVE DenProduct(_, _)
DenProduct(cluster_stats, n) ==
    IF n = 0 THEN 1
    ELSE cluster_stats[n].val.avg_baseload.den * DenProduct(cluster_stats, n - 1)

\* the avg_baseload of every entry over one common denominator: integers in
\* the order of the fractions
BaseloadKeys(cluster_stats) ==
    LET L == DenProduct(cluster_stats, Len(cluster_stats)) IN
    [k \in 1..Len(cluster_stats) |->
        cluster_stats[k].val.avg_baseload.num
            * (L \div cluster_stats[k].val.avg_baseload.den)]

\* mutation: the sort without reverse=True
clusters_by_baseload_ascending(cluster_stats) ==
    ArgSort(BaseloadKeys(cluster_stats))

\* sorted(cluster_stats.items(), key=avg_baseload, reverse=True): positions
\* of cluster_stats, highest first, equal keys in dict order
clusters_by_baseload(cluster_stats) ==
    ArgSort([k \in 1..Len(cluster_stats) |-> 0 - BaseloadKeys(cluster_stats)[k]])

\* the key of descriptions the function returns for cluster_id
get_cluster_description(cluster_id, cluster_stats) ==
    LET order == clusters_by_baseload(cluster_stats)
        hits == {i \in 1..Len(order) : int(cluster_stats[order[i]].key) = cluster_id}
    IN IF hits = {} THEN "standard"
       ELSE LET i == CHOOSE i \in hits : \A j \in hits : i <= j IN
            IF i = 1 THEN "high_baseload"
            ELSE IF i = Len(order) THEN "efficient"
            ELSE "standard"

RECURSIVE CollectStats(_, _, _, _)
\* the loop that fills cluster_stats from the keys of summary['clusters']
CollectStats(d, clusters, n, up) ==
    IF n = 0 THEN <<>>
    ELSE LET sofar == CollectStats(d, clusters, n - 1, up)
             cluster_data == dash_get_cluster(d, int(clusters[n].key), up)
         IN IF cluster_data # PyNone
            THEN DictPut(sofar, clusters[n].key, cluster_data)
            ELSE sofar

\* cluster_stats.get(cluster_id, {})
StatsGet(cluster_stats, key) ==
    IF \E k \in 1..Len(cluster_stats) : cluster_stats[k].key = key
    THEN cluster_stats[CHOOSE k \in 1..Len(cluster_stats) : cluster_stats[k].key = key].val
    ELSE EmptyDict

\* one card per entry of summary['clusters']
ClusterCards(clusters, cluster_stats) ==
    [k \in 1..Len(clusters) |->
        [cluster_id |-> clusters[k].key,
         name |-> get_cluster_description(int(clusters[k].key), cluster_stats),
         count |-> clusters[k].val,
         stats |-> StatsGet(cluster_stats, clusters[k].key)]]

\* f"{stats.get('avg_weekend_ratio', 0):.2f}" raises TypeError on None
CardsRaise(cards) ==
    \E k \in 1..Len(cards) :
        /\ cards[k].stats # EmptyDict
        /\ cards[k].stats.avg_weekend_ratio = PyNone

\* x - f for a number of tenths x and a fraction f
Minus(x, f) == Div(x * f.den - f.num, f.den)

\* the right column of "Building vs Cluster Comparison": per metric the
\* value shown for the cluster and the delta
Comparison(record, cluster_data) ==
    IF cluster_data = PyNone THEN [kind |-> "not_available"]
    ELSE [kind |-> "metrics",
          avg_consumption |->
             [shown |-> cluster_data.avg_baseload,
              delta |-> Minus(record.avg_consumption, cluster_data.avg_baseload)],
          baseload |->
             [shown |-> cluster_data.avg_baseload,
              delta |-> Minus(record.baseload, cluster_data.avg_baseload)],
          weekend_ratio |->
             IF cluster_data.avg_weekend_ratio # PyNone
                /\ cluster_data.avg_weekend_ratio.num # 0
             THEN [shown |-> cluster_data.avg_weekend_ratio,
                   delta |-> Minus(record.weekend_ratio, cluster_data.avg_weekend_ratio)]
             ELSE PyNone]

NoChart == [kind |-> "none"]
ChartRaises(what) == [kind |-> "raises", what |-> what]

\* marker colours: "worsens efficiency" and "improves efficiency"
Worsens == "#ff6b6b"
Improves == "#4ecdc4"

\* mutation: sorted by x[1] in place of abs(x[1])
ShapChart_signed(shap_values) ==
    IF ~Truthy(shap_values) THEN NoChart
    ELSE IF shap_values.kind # "dict" THEN ChartRaises("AttributeError")
    ELSE IF \E k \in 1..Len(shap_values.items) : shap_values.items[k].val.kind # "num"
    THEN ChartRaises("TypeError")
    ELSE LET items == shap_values.items
             order == ArgSort([k \in 1..Len(items) |-> 0 - items[k].val.n])
             sorted_shap == Take(items, order)
         IN [kind |-> "bar",
             features |-> [k \in 1..Len(sorted_shap) |-> sorted_shap[k].key],
             values |-> [k \in 1..Len(sorted_shap) |-> sorted_shap[k].val.n],
             colors |-> [k \in 1..Len(sorted_shap) |->
                            IF sorted_shap[k].val.n > 0 THEN Worsens ELSE Improves]]

\* the SHAP bar chart of building.get('shap_values', {})
ShapChart(shap_values) ==
    IF ~Truthy(shap_values) THEN NoChart
    ELSE IF shap_values.kind # "dict" THEN ChartRaises("AttributeError")
    ELSE IF \E k \in 1..Len(shap_values.items) : shap_values.items[k].val.kind # "num"
    THEN ChartRaises("TypeError")
    ELSE LET items == shap_values.items
             order == ArgSort([k \in 1..Len(items) |-> 0 - Abs(items[k].val.n)])
             sorted_shap == Take(items, order)
         IN [kind |-> "bar",
             features |-> [k \in 1..Len(sorted_shap) |-> sorted_shap[k].key],
             values |-> [k \in 1..Len(sorted_shap) |-> sorted_shap[k].val.n],
             colors |-> [k \in 1..Len(sorted_shap) |->
                            IF sorted_shap[k].val.n > 0 THEN Worsens ELSE Improves]]

\* the Building Explorer tab for the selected building
Explorer(d, building_id, net) ==
    LET building == dash_get_building(d, building_id, net.building) IN
    IF building = PyNone \/ "record" \notin DOMAIN building
    THEN [selected |-> building_id, shown |-> FALSE,
          comparison |-> [kind |-> "none"], chart |-> NoChart]
    ELSE [selected |-> building_id, shown |-> TRUE,
          comparison |->
             Comparison(building.record,
                        dash_get_cluster(d, building.record.cluster, net.cluster)),
          chart |-> ShapChart(building.shap_values)]

Stopped(kind) == [kind |-> kind]

\* one run of the script with the building picked in the selectbox (pick is
\* a position in summary['top_priority']) and the outcome of the HTTP calls
Script(d, pick, net) ==
    LET summary == dash_get_summary(d, net.summary) IN
    IF summary = PyNone THEN Stopped("cannot_connect")
    ELSE IF summary.total_buildings = 0 THEN Stopped("ZeroDivisionError")
    ELSE LET cluster_stats == CollectStats(d, summary.clusters, Len(summary.clusters),
                                           net.cluster)
             cards == ClusterCards(summary.clusters, cluster_stats)
         IN IF Len(summary.clusters) = 0 THEN Stopped("StreamlitAPIException")
            ELSE IF CardsRaise(cards) THEN Stopped("TypeError")
            ELSE [kind |-> "tabs",
                  cluster_stats |-> cluster_stats,
                  cards |-> cards,
                  top_priority |-> summary.top_priority,
                  explorer |->
                     IF summary.top_priority = <<>>
                     THEN [selected |-> "", shown |-> FALSE,
                           comparison |-> [kind |-> "none"], chart |-> NoChart]
                     ELSE Explorer(d, summary.top_priority[pick].building_id, net)]

\* the options of the selectbox; a run that stops earlier has none to pick
Picks == IF df.rows = <<>> THEN {1} ELSE 1..Min(TopN, Len(df.rows))

\* one run of the script, top to bottom, on an empty page
Run ==
    /\ view = NoView
    /\ \E pick \in Picks : \E net \in Network :
          /\ view' = Script(df, pick, net)
          /\ conn' = net
    /\ UNCHANGED <<df, resp, files>>

\* the user interacts (picks a building, reloads): the page is cleared and
\* the script is due to run again
Interact ==
    /\ view # NoView
    /\ view' = NoView
    /\ conn' = AllUp
    /\ UNCHANGED <<df, resp, files>>

DashNext == Run \/ Interact

DashSpec == Init /\ [][DashNext]_vars

(***************************************************************************)
(* Vocabulary of the properties: what the table holds, read off the rows   *)
(* directly, and how an answer of either query layer is read.              *)
(***************************************************************************)
Rows == df.rows
Indices == 1..Len(Rows)
RowsWithId(b) == {i \in Indices : Rows[i].building_id = b}
RowsInCluster(c) == {i \in Indices : Rows[i].cluster = c}
First(I) == CHOOSE i \in I : \A j \in I : i <= j

RECURSIVE SetSum(_, _)
\* the sum of the column col over the rows at the positions I
SetSum(I, col) ==
    IF I = {} THEN 0
    ELSE LET i == CHOOSE x \in I : TRUE IN Rows[i][col] + SetSum(I \ {i}, col)

IsApi == resp.op \in {"root", "list_buildings", "get_building", "get_summary", "get_cluster"}
AskedBuilding == resp.op \in {"get_building", "cloud_get_building"}
AskedSummary == resp.op \in {"get_summary", "cloud_get_summary"}
AskedCluster == resp.op \in {"get_cluster", "cloud_get_cluster"}
\* the answer signals NotFound: 404 from the API, None from a cloud helper
NotFound == IF IsApi THEN resp.res.status = 404 ELSE resp.res = PyNone
Succeeded == IF IsApi THEN resp.res.status = 200 ELSE resp.res # PyNone
\* the value a successful answer carries
Payload == IF IsApi THEN resp.res.body ELSE resp.res

(***************************************************************************)
(* C1.  For every identifier that occurs in the building_id column,        *)
(* get_building (API and cloud helper) succeeds and returns the first row  *)
(* in table order carrying that identifier: the returned record's          *)
(* building_id is the queried one and every column has that row's value.   *)
(***************************************************************************)
C1_GetBuildingReturnsFirstMatch ==
    (AskedBuilding /\ RowsWithId(resp.arg) # {}) =>
        /\ Succeeded
        /\ Payload.record.building_id = resp.arg
        /\ DOMAIN Payload.record = df.columns
        /\ \A c \in df.columns :
              Payload.record[c] = Rows[First(RowsWithId(resp.arg))][c]

\* the API answered for an identifier that two later rows also carry
C1_Witness ==
    /\ resp.op = "get_building"
    /\ resp.res.status = 200
    /\ \E i, j \in RowsWithId(resp.arg) : 1 < i /\ i < j

(***************************************************************************)
(* C2.  For every identifier that does not occur in the table,             *)
(* get_building signals NotFound (404 from the API, None from the cloud    *)
(* helper) and returns no record.                                          *)
(***************************************************************************)
C2_AbsentIdIsNotFound ==
    (AskedBuilding /\ RowsWithId(resp.arg) = {}) =>
        /\ NotFound
        /\ "record" \notin DOMAIN Payload

\* an absent identifier asked of a non-empty table, through the API
C2_Witness ==
    /\ resp.op = "get_building"
    /\ Len(Rows) > 1
    /\ RowsWithId(resp.arg) = {}
    /\ resp.res.status = 404

(***************************************************************************)
(* C3.  The top_priority list of get_summary is sorted ascending by        *)
(* priority_rank, has exactly min(10, number of records) entries, each     *)
(* entry is the projection of a table row used at most once, and no row    *)
(* left out has a strictly smaller priority_rank than an entry; on ranks   *)
(* 3,1,2 a limit of 2 gives the ranks 1,2 in that order.                   *)
(***************************************************************************)
TopColumns == {"building_id", "building_type", "recommendation", "priority_rank"}
Projection(i) == [c \in TopColumns |-> Rows[i][c]]
TimesIn(seq, v) == Cardinality({k \in 1..Len(seq) : seq[k] = v})
TimesInTable(v) == Cardinality({i \in Indices : Projection(i) = v})

C3_TopPrioritySortedAndSmallest ==
    /\ AskedSummary =>
        LET tp == Payload.top_priority IN
        /\ \A k \in 1..(Len(tp) - 1) : tp[k].priority_rank <= tp[k + 1].priority_rank
        /\ Len(tp) = IF Len(Rows) < TopN THEN Len(Rows) ELSE TopN
        /\ \A k \in 1..Len(tp) : TimesIn(tp, tp[k]) <= TimesInTable(tp[k])
        /\ \A i \in Indices :
              (\E k \in 1..Len(tp) : Rows[i].priority_rank < tp[k].priority_rank)
                  => TimesIn(tp, Projection(i)) = TimesInTable(Projection(i))
    /\ Column(Rows, "priority_rank") = <<3, 1, 2>> =>
          Column(nsmallest(Rows, 2, "priority_rank"), "priority_rank") = <<1, 2>>

\* more rows than the list holds, and the first row of the table is left out
C3_Witness ==
    /\ resp.op = "get_summary"
    /\ Len(Rows) > TopN
    /\ Len(resp.res.body.top_priority) = TopN
    /\ \A k \in 1..TopN : resp.res.body.top_priority[k].building_id # Rows[1].building_id

(***************************************************************************)
(* C4.  get_summary's anomalies is the number of rows whose is_anomaly is  *)
(* true; it is the same for every permutation of the rows, and on every    *)
(* subset of the rows it is the number of flagged rows of the subset.      *)
(* Tables of more than MaxRows rows are checked on every transposition of  *)
(* two rows, and on every contiguous slice and every leave-one-out subset. *)
(***************************************************************************)
Flagged(I) == Cardinality({i \in I : Rows[i].is_anomaly})

Bijections(n) == {p \in [1..n -> 1..n] : \A i, j \in 1..n : p[i] = p[j] => i = j}
Swap(n, a, b) == [i \in 1..n |-> IF i = a THEN b ELSE IF i = b THEN a ELSE i]
Rearrangements(n) ==
    IF n <= MaxRows THEN Bijections(n)
    ELSE {Swap(n, a, b) : a, b \in 1..n}
SubsetsChecked(n) ==
    IF n <= MaxRows THEN SUBSET (1..n)
    ELSE {a..b : a, b \in 1..n} \cup {(1..n) \ {i} : i \in 1..n}

\* the rows at the positions I, in table order
Kth(I, k) == CHOOSE i \in I : Cardinality({j \in I : j <= i}) = k
RowsAt(I) == [k \in 1..Cardinality(I) |-> Rows[Kth(I, k)]]
AnomaliesOf(rows) == summary_of(Table(df.columns, rows)).anomalies

C4_AnomalyCount ==
    AskedSummary =>
        /\ Payload.anomalies = Flagged(Indices)
        /\ \A p \in Rearrangements(Len(Rows)) :
              AnomaliesOf([i \in Indices |-> Rows[p[i]]]) = Payload.anomalies
        /\ \A I \in SubsetsChecked(Len(Rows)) :
              AnomaliesOf(RowsAt(I)) = Flagged(I)

\* flagged and unflagged rows are mixed and the first row is not flagged
C4_Witness ==
    /\ resp.op = "get_summary"
    /\ resp.res.body.anomalies = 2
    /\ Len(Rows) = 3
    /\ ~Rows[1].is_anomaly

(***************************************************************************)
(* C5.  For every cluster id with at least one member, get_cluster's       *)
(* avg_baseload is the sum of baseload over exactly the rows whose cluster *)
(* equals the id, divided by their number; with one member it is that      *)
(* member's baseload.                                                      *)
(***************************************************************************)
C5_AvgBaseloadIsClusterMean ==
    (AskedCluster /\ RowsInCluster(resp.arg) # {}) =>
        LET M == RowsInCluster(resp.arg)
            avg == Payload.avg_baseload IN
        /\ Succeeded
        /\ avg.den > 0
        /\ avg.num * Cardinality(M) = SetSum(M, "baseload") * avg.den
        /\ Cardinality(M) = 1 =>
              (avg.den = 1 /\ avg.num = Rows[First(M)].baseload)

\* two members of different baseload, and an outsider whose baseload would
\* change the mean
C5_Witness ==
    /\ resp.op = "get_cluster"
    /\ resp.res.status = 200
    /\ \E i, j \in RowsInCluster(resp.arg) : Rows[i].baseload < Rows[j].baseload
    /\ \E i \in Indices \ RowsInCluster(resp.arg) :
          Div(SetSum(Indices, "baseload"), Len(Rows)) # resp.res.body.avg_baseload

(***************************************************************************)
(* C7.  The API's get_cluster signals NotFound exactly when no row has the *)
(* cluster value; otherwise buildings holds exactly the identifiers of the *)
(* rows of that cluster, in table order, and count is its length.          *)
(***************************************************************************)
C7_ClusterMembers ==
    resp.op = "get_cluster" =>
        LET M == RowsInCluster(resp.arg) IN
        /\ resp.res.status = 404 <=> M = {}
        /\ M # {} =>
              /\ resp.res.status = 200
              /\ Len(resp.res.body.buildings) = Cardinality(M)
              /\ \A i \in M :
                    resp.res.body.buildings[Cardinality({j \in M : j <= i})]
                        = Rows[i].building_id
              /\ resp.res.body.count = Len(resp.res.body.buildings)

\* the members are the first and the third row, the second is an outsider
C7_Witness ==
    /\ resp.op = "get_cluster"
    /\ resp.res.status = 200
    /\ RowsInCluster(resp.arg) = {1, 3}

(***************************************************************************)
(* C8.  For every record whose shap_json is present (a non-empty string)   *)
(* but is not valid JSON, get_building (API and cloud helper) succeeds and *)
(* the returned record carries the empty SHAP mapping.                     *)
(***************************************************************************)
\* the shap_json cell of the row get_building looks up
AskedCell == Rows[First(RowsWithId(resp.arg))].shap_json
ShapPresent ==
    /\ AskedBuilding
    /\ RowsWithId(resp.arg) # {}
    /\ "shap_json" \in df.columns
    /\ AskedCell.kind = "text"
    /\ AskedCell.toks # <<>>

C8_MalformedShapIsEmpty ==
    (ShapPresent /\ ~json_loads(AskedCell).ok) =>
        /\ Succeeded
        /\ Payload.shap_values = EmptyDict

\* the API answered for a record whose payload stops in the middle
C8_Witness ==
    /\ resp.op = "get_building"
    /\ ShapPresent
    /\ AskedCell.toks = <<LB, S("a"), COLON, N(5)>>
    /\ resp.res.status = 200
    /\ resp.res.body.shap_values = EmptyDict

(***************************************************************************)
(* C9.  For every record whose shap_json is present, the SHAP value        *)
(* get_building returns is a mapping from feature name to number or the    *)
(* empty mapping: valid JSON that is no such mapping is treated as empty.  *)
(* The handlers store whatever json.loads returns: this fails.             *)
(***************************************************************************)
IsNumberMapping(v) ==
    /\ v.kind = "dict"
    /\ \A k \in 1..Len(v.items) : v.items[k].val.kind = "num"

C9_ShapIsNumberMappingOrEmpty ==
    ShapPresent => IsNumberMapping(Payload.shap_values)

(***************************************************************************)
(* C6.  Of the cluster summaries passed to get_cluster_description: with 2 *)
(* or more, exactly one cluster is labelled high baseload and it has the   *)
(* maximum mean baseload, exactly one is labelled efficient and it has the *)
(* minimum mean baseload, every other is labelled standard (ties in the    *)
(* mean included); with exactly 2 none is standard; with exactly 1 it is   *)
(* labelled high baseload.                                                 *)
(***************************************************************************)
\* the label of the card of the k-th entry of cluster_stats
LabelOf(k) ==
    LET c == CHOOSE c \in 1..Len(view.cards) :
                view.cards[c].cluster_id = view.cluster_stats[k].key
    IN view.cards[c].name
MeanOf(k) == view.cluster_stats[k].val.avg_baseload
MeanLe(a, b) == a.num * b.den <= b.num * a.den
Labelled(name) == {k \in 1..Len(view.cluster_stats) : LabelOf(k) = name}

C6_ClusterLabels ==
    (view.kind = "tabs" /\ view.cluster_stats # <<>>) =>
        LET n == Len(view.cluster_stats) IN
        /\ \A k \in 1..n : LabelOf(k) \in {"high_baseload", "efficient", "standard"}
        /\ Cardinality(Labelled("high_baseload")) = 1
        /\ \A k \in Labelled("high_baseload") : \A j \in 1..n : MeanLe(MeanOf(j), MeanOf(k))
        /\ n >= 2 =>
              /\ Cardinality(Labelled("efficient")) = 1
              /\ \A k \in Labelled("efficient") : \A j \in 1..n : MeanLe(MeanOf(k), MeanOf(j))
        /\ n = 2 => Labelled("standard") = {}
        /\ n = 1 => LabelOf(1) = "high_baseload"

\* three clusters, two of them tied on the highest mean: one of the two is
\* high baseload, the other standard, the third efficient
C6_Witness ==
    /\ view.kind = "tabs"
    /\ Len(view.cluster_stats) = 3
    /\ \E i, j, k \in 1..3 :
          /\ i # j
          /\ MeanOf(i) = MeanOf(j)
          /\ LabelOf(i) = "high_baseload"
          /\ LabelOf(j) = "standard"
          /\ LabelOf(k) = "efficient"
          /\ MeanOf(k) # MeanOf(i)

(***************************************************************************)
(* C10.  For every non-empty SHAP mapping (feature name to number) of the  *)
(* selected building the bar chart lists every feature exactly once, with  *)
(* its value, ordered by descending absolute contribution; {a: 0.5,        *)
(* b: -0.3} gives [(a, 0.5), (b, -0.3)].  As claimed, a bar has the        *)
(* 'worsens' colour exactly for positive values and the 'improves' colour  *)
(* exactly for negative values: C10_ColouredBySign, which a value of 0     *)
(* refutes.  As amended, the 'improves' colour is that of every value that *)
(* is not positive: C10_ShapChart.                                         *)
(***************************************************************************)
\* the shap_json cell of the selected building and what it parses to
SelectedCell == Rows[First(RowsWithId(view.explorer.selected))].shap_json
SelectedShap == json_loads(SelectedCell).val
ChartShown ==
    /\ view.kind = "tabs"
    /\ view.explorer.shown
    /\ json_loads(SelectedCell).ok
    /\ IsNumberMapping(SelectedShap)
    /\ SelectedShap.items # <<>>
Chart == view.explorer.chart
ValueOf(feature) ==
    SelectedShap.items[CHOOSE k \in 1..Len(SelectedShap.items) :
                          SelectedShap.items[k].key = feature].val.n

ChartListsAndOrders ==
    /\ Chart.kind = "bar"
    /\ Len(Chart.features) = Len(SelectedShap.items)
    /\ Len(Chart.values) = Len(Chart.features)
    /\ Len(Chart.colors) = Len(Chart.features)
    /\ \A i \in 1..Len(SelectedShap.items) :
          Cardinality({k \in 1..Len(Chart.features) :
                          Chart.features[k] = SelectedShap.items[i].key}) = 1
    /\ \A k \in 1..Len(Chart.features) : Chart.values[k] = ValueOf(Chart.features[k])
    /\ \A k \in 1..(Len(Chart.values) - 1) : Abs(Chart.values[k]) >= Abs(Chart.values[k + 1])
    /\ SelectedCell.toks = <<LB, S("a"), COLON, N(5), COMMA, S("b"), COLON, N(-3), RB>> =>
          (Chart.features = <<"a", "b">> /\ Chart.values = <<5, -3>>)

C10_ColouredBySign ==
    ChartShown =>
        /\ ChartListsAndOrders
        /\ \A k \in 1..Len(Chart.values) :
              /\ Chart.colors[k] = Worsens <=> Chart.values[k] > 0
              /\ Chart.colors[k] = Improves <=> Chart.values[k] < 0

C10_ShapChart ==
    ChartShown =>
        /\ ChartListsAndOrders
        /\ \A k \in 1..Len(Chart.values) :
              /\ Chart.colors[k] = Worsens <=> Chart.values[k] > 0
              /\ Chart.colors[k] = Improves <=> Chart.values[k] <= 0

\* {"a": 0.0, "b": 0.5}: the bars change places and the bar of value 0 has
\* the 'improves' colour
C10_Witness ==
    /\ ChartShown
    /\ Chart.kind = "bar"
    /\ Chart.features = <<"b", "a">>
    /\ Chart.values = <<5, 0>>
    /\ Chart.colors = <<Worsens, Improves>>

(***************************************************************************)
(* C11.  When the table lacks the optional underperformer column or the    *)
(* optional weekend_ratio column, no operation ends in an error:           *)
(* get_summary reports underperformers = 0, get_cluster reports            *)
(* avg_weekend_ratio as null, and a run of the dashboard that reached the  *)
(* query service renders the tabs with one card per cluster (the table     *)
(* has records; the table without records is the case of C18).             *)
(* The card formats avg_weekend_ratio with ":.2f" and null is no number:   *)
(* the run ends in TypeError, so this fails.                               *)
(***************************************************************************)
LacksOptional == OptionalColumns \ df.columns # {}

C11_OptionalColumnsNeverFail ==
    /\ (AskedSummary /\ "underperformer" \notin df.columns)
          => (Succeeded /\ Payload.underperformers = 0)
    /\ (AskedCluster /\ "weekend_ratio" \notin df.columns /\ ~NotFound)
          => Payload.avg_weekend_ratio = PyNone
    /\ (LacksOptional /\ Rows # <<>> /\ view # NoView /\ view.kind # "cannot_connect")
          => /\ view.kind = "tabs"
             /\ Len(view.cards) = Cardinality({Rows[i].cluster : i \in Indices})

(***************************************************************************)
(* C12.  After any sequence of list_buildings, get_building, get_summary,  *)
(* get_cluster and health calls, whether they succeed or signal NotFound,  *)
(* the Result Table is the table that was loaded, and therefore every      *)
(* answer, at every point of the sequence, is the one the same query with  *)
(* the same argument has on the table as loaded.                           *)
(***************************************************************************)
\* what a query of the API returns on the table d
ResultOf(op, arg, d) ==
    CASE op = "root" -> root(d)
      [] op = "list_buildings" -> list_buildings(d)
      [] op = "get_building" -> get_building(d, arg)
      [] op = "get_summary" -> get_summary(d)
      [] op = "get_cluster" -> get_cluster(d, arg)

C12_TableUnchanged ==
    /\ df = load(files)
    /\ IsApi => resp.res = ResultOf(resp.op, resp.arg, load(files))

\* a query that signalled NotFound on a table with records and rank ties
C12_Witness ==
    /\ resp.op = "get_cluster"
    /\ NotFound
    /\ Len(Rows) = MaxRows
    /\ df = load(files)
    /\ \E i \in Indices : \E j \in Indices : i < j /\ Rows[i].priority_rank > Rows[j].priority_rank

(***************************************************************************)
(* C13.  At start of the query service the table is loaded exactly once:   *)
(* from the parquet artifact when it exists, otherwise from the CSV        *)
(* fallback when that exists; when neither exists startup fails with       *)
(* FileNotFoundError and no query is ever answered.  No query is answered  *)
(* before the table is loaded, and a loaded table is never loaded again.   *)
(***************************************************************************)
LoadedAsClaimed ==
    /\ (df # NotLoaded /\ files.parquet # Missing) => df = files.parquet
    /\ (df # NotLoaded /\ files.parquet = Missing /\ files.csv # Missing)
          => df = files.csv
    /\ (files.parquet = Missing /\ files.csv = Missing)
          => (df \in {NotLoaded, FileNotFoundError} /\ resp = NoResp)
    /\ resp # NoResp => df \in {files.parquet, files.csv} \ {Missing}

C13_LoadedOnceAtStartup ==
    /\ []LoadedAsClaimed
    /\ [][df # NotLoaded => (df' = df /\ files' = files)]_vars

\* the service answers from the CSV fallback
C13_Witness ==
    /\ files.parquet = Missing
    /\ files.csv # Missing
    /\ df = files.csv
    /\ AskedSummary /\ IsApi /\ Succeeded
    /\ Payload.total_buildings = MaxRows

(***************************************************************************)
(* C14.  A call of the dashboard to the query service is attempted once;   *)
(* when it fails the helper returns None (no retry) and the script goes    *)
(* on.  As claimed, a failed summary fetch stops the run in the "cannot    *)
(* connect" state with no tab rendered, and a failed building or cluster   *)
(* fetch makes the Building Explorer say "not available".  The last part   *)
(* fails: after a failed building fetch the explorer renders nothing.      *)
(***************************************************************************)
\* the run got as far as the Building Explorer with a building selected
ExplorerReached ==
    /\ view # NoView
    /\ view.kind = "tabs"
    /\ view.top_priority # <<>>

C14_FailedFetchShownNotAvailable ==
    /\ (view # NoView /\ ~conn.summary) => view = Stopped("cannot_connect")
    /\ (ExplorerReached /\ (~conn.building \/ ~conn.cluster))
          => view.explorer.comparison.kind = "not_available"

(***************************************************************************)
(* C14, amended.  A failed summary fetch stops the run in the "cannot      *)
(* connect" state with no tab rendered.  A failed cluster fetch leaves the *)
(* cluster cards without statistics and makes the comparison panel of a    *)
(* displayed building say "not available".  A failed building fetch leaves *)
(* the Building Explorer without any building detail, with no notice: no   *)
(* comparison panel and no chart.  None of the three raises.               *)
(***************************************************************************)
C14_FailedFetchRecovered ==
    /\ (view # NoView /\ ~conn.summary) => view = Stopped("cannot_connect")
    /\ (view # NoView /\ conn.summary /\ ~conn.cluster /\ Rows # <<>>)
          => /\ view.kind = "tabs"
             /\ view.cluster_stats = <<>>
             /\ \A k \in 1..Len(view.cards) : view.cards[k].stats = EmptyDict
             /\ view.explorer.shown => view.explorer.comparison.kind = "not_available"
    /\ (ExplorerReached /\ ~conn.building)
          => /\ ~view.explorer.shown
             /\ view.explorer.comparison.kind = "none"
             /\ view.explorer.chart = NoChart

\* both the cluster fetches and the building fetch of a run failed
C14_Witness ==
    /\ ExplorerReached
    /\ conn = [summary |-> TRUE, cluster |-> FALSE, building |-> FALSE]
    /\ Len(view.cards) >= 2
    /\ ~view.explorer.shown

(***************************************************************************)
(* C15.  In the comparison panel of the displayed building, for every      *)
(* metric shown (Avg Consumption, Baseload, Weekend Ratio) the cluster     *)
(* column shows the mean of that same metric over the rows of the          *)
(* building's cluster, and the delta is the building's value of the metric *)
(* minus that mean.  Under "Avg Consumption" the panel shows the mean      *)
(* baseload of the cluster, and its delta is taken against it: this fails. *)
(***************************************************************************)
Selected == Rows[First(RowsWithId(view.explorer.selected))]
\* the mean of the column col over the cluster of the displayed building
ClusterMean(col) ==
    LET I == RowsInCluster(Selected.cluster) IN Div(SetSum(I, col), Cardinality(I))
SameMetric(shown, col) ==
    /\ shown.shown = ClusterMean(col)
    /\ shown.delta = Minus(Selected[col], ClusterMean(col))

C15_ComparisonShowsSameMetric ==
    (view # NoView /\ view.kind = "tabs" /\ view.explorer.comparison.kind = "metrics") =>
        LET panel == view.explorer.comparison IN
        /\ SameMetric(panel.avg_consumption, "avg_consumption")
        /\ SameMetric(panel.baseload, "baseload")
        /\ panel.weekend_ratio # PyNone => SameMetric(panel.weekend_ratio, "weekend_ratio")

(***************************************************************************)
(* C16.  For every table in which each record has a cluster value,         *)
(* get_summary's clusters mapping has exactly one key per distinct         *)
(* cluster value, the count under each key equals get_cluster(key).count,  *)
(* the member lists of distinct clusters are disjoint, and the counts sum  *)
(* to total_buildings.  The member lists are lists of identifiers: an      *)
(* identifier carried by rows of two clusters is in both, so this fails.   *)
(***************************************************************************)
ClusterValues == {Rows[i].cluster : i \in Indices}
Keys(clusters) == {clusters[k].key : k \in 1..Len(clusters)}
Members(c) == {get_cluster(df, c).body.buildings[i] :
                  i \in 1..Len(get_cluster(df, c).body.buildings)}

\* keys, counts and their sum
CountsAgree(summary) ==
    /\ Keys(summary.clusters) = ClusterValues
    /\ Len(summary.clusters) = Cardinality(ClusterValues)
    /\ \A k \in 1..Len(summary.clusters) :
          LET found == get_cluster(df, summary.clusters[k].key) IN
          /\ found.status = 200
          /\ found.body.count = summary.clusters[k].val
          /\ found.body.count = Len(found.body.buildings)
    /\ Sum([k \in 1..Len(summary.clusters) |-> summary.clusters[k].val])
          = summary.total_buildings

MembersDisjoint == \A c \in ClusterValues : \A e \in ClusterValues :
                      c # e => Members(c) \cap Members(e) = {}

C16_ClustersPartition ==
    (AskedSummary /\ IsApi) => (CountsAgree(Payload) /\ MembersDisjoint)

(***************************************************************************)
(* C16, amended.  For every table in which each record has a cluster       *)
(* value: one key per distinct cluster value, the count under each key is  *)
(* get_cluster(key).count and the length of its member list, and the       *)
(* counts sum to total_buildings.  The member lists of distinct clusters   *)
(* are disjoint exactly when no identifier is carried by rows of two       *)
(* clusters, as in every table whose identifiers are unique.               *)
(***************************************************************************)
IdInTwoClusters ==
    \E i \in Indices : \E j \in Indices :
        Rows[i].building_id = Rows[j].building_id /\ Rows[i].cluster # Rows[j].cluster

C16_ClustersPartitionRows ==
    (AskedSummary /\ IsApi) =>
        /\ CountsAgree(Payload)
        /\ MembersDisjoint <=> ~IdInTwoClusters

\* a summary of MaxRows rows in two clusters, an identifier twice in one
C16_Witness ==
    /\ AskedSummary /\ IsApi
    /\ Payload.total_buildings = MaxRows
    /\ Len(Payload.clusters) = 2
    /\ ~IdInTwoClusters
    /\ \E i \in Indices : \E j \in Indices :
          i # j /\ Rows[i].building_id = Rows[j].building_id

(***************************************************************************)
(* C17.  For every table the local helpers of dashboard_cloud.py agree     *)
(* with the query service: get_summary returns the same value; get_cluster *)
(* returns None exactly when the API signals NotFound and otherwise the    *)
(* same count, avg_baseload and avg_weekend_ratio; get_building returns    *)
(* None exactly when the API signals NotFound and otherwise the same       *)
(* record fields and the same shap_values.  The helper sets shap_values    *)
(* to {} where the API sets no shap_values at all: this fails.             *)
(***************************************************************************)
SummaryAgrees ==
    resp.op = "cloud_get_summary" => resp.res = get_summary(df).body

ClusterAgrees ==
    resp.op = "cloud_get_cluster" =>
        LET api == get_cluster(df, resp.arg) IN
        /\ resp.res = PyNone <=> api.status = 404
        /\ resp.res # PyNone =>
              /\ api.status = 200
              /\ resp.res.count = api.body.count
              /\ resp.res.avg_baseload = api.body.avg_baseload
              /\ resp.res.avg_weekend_ratio = api.body.avg_weekend_ratio

\* same(api_shap, cloud_shap) tells when the two shap_values agree
BuildingAgrees(same(_, _)) ==
    resp.op = "cloud_get_building" =>
        LET api == get_building(df, resp.arg) IN
        /\ resp.res = PyNone <=> api.status = 404
        /\ resp.res # PyNone =>
              /\ api.status = 200
              /\ resp.res.record = api.body.record
              /\ same(api.body.shap_values, resp.res.shap_values)

SameValue(a, c) == a = c

C17_CloudHelpersAgree ==
    SummaryAgrees /\ ClusterAgrees /\ BuildingAgrees(SameValue)

(***************************************************************************)
(* C17, amended.  As above, except for shap_values: where the API's record *)
(* has a shap_values entry the helper's is the same value, and where the   *)
(* API's record has none (no shap_json column, or a NULL or empty cell)    *)
(* the helper's is the empty mapping.                                      *)
(***************************************************************************)
SameOrEmptyForUnset(a, c) == c = (IF a = Absent THEN EmptyDict ELSE a)

C17_CloudHelpersAgreeOnSetShap ==
    SummaryAgrees /\ ClusterAgrees /\ BuildingAgrees(SameOrEmptyForUnset)

\* the helper returned {} for a NULL cell, where the API sets nothing
C17_Witness ==
    /\ resp.op = "cloud_get_building"
    /\ resp.res # PyNone
    /\ "shap_json" \in df.columns
    /\ resp.res.record.shap_json = CellNone
    /\ resp.res.shap_values = EmptyDict
    /\ get_building(df, resp.arg).body.shap_values = Absent

(***************************************************************************)
(* C18.  For every table the query service can load, the table without     *)
(* records included, a run of the dashboard that fetched the summary ends  *)
(* in a display state and not in an arithmetic or layout error: the        *)
(* anomaly percentage is computed only when total_buildings > 0 and the    *)
(* cluster columns are laid out only when there is a cluster.  The         *)
(* percentage is computed unguarded, so on the empty table this fails.     *)
(***************************************************************************)
C18_NoArithmeticOrLayoutError ==
    (view # NoView /\ conn.summary) =>
        /\ view.kind \notin {"ZeroDivisionError", "StreamlitAPIException"}
        /\ Rows = <<>> => view.kind = "tabs"

====
